---- MODULE Spec2Model ----
(***************************************************************************)
(* maya-capture (src/capture.py): capture() and snap() as a state machine  *)
(* over the host (Maya) state they read and write.  One action per host    *)
(* call or group of host calls of the source; every host call that can     *)
(* raise has a raising outcome, and Python's with/finally/contextlib.nested*)
(* unwinding is followed step by step.                                     *)
(***************************************************************************)
EXTENDS Integers, Sequences, FiniteSets, TLC

\* How many host calls may raise during one call of capture()/snap().
MaxFaults == 1
\* The host's time cursor ranges over 0..MaxTime.
MaxTime == 1

Times == 0..MaxTime

\* ------------------------------------------------------------ python values
\* Argument values: a keyword that was not passed, None, an int, a float
\* (the fraction n/d in lowest terms, d > 0), a list, a string.
Absent == [t |-> "absent"]
NoneV == [t |-> "none"]
Num(n) == [t |-> "num", n |-> n]
Float(n, d) == [t |-> "float", n |-> n, d |-> d]
List(s) == [t |-> "list", l |-> s]
Str(s) == [t |-> "str", s |-> s]

\* Python truthiness (the `x or y` and `if x:` of capture()).
Truthy(v) ==
    CASE v.t \in {"num", "float"} -> v.n # 0
      [] v.t = "list" -> v.l # <<>>
      [] v.t = "str" -> v.s # ""
      [] OTHER -> FALSE

\* Python's `a or b`.
PyOr(a, b) == IF Truthy(a) THEN a ELSE b

\* ------------------------------------------------------------------ scene
\* The cameras of the scene; "ghost" names no object.
Cameras == {"persp", "cam2"}
CameraArgs == {"", "cam2", "ghost"}

\* The fields of a CameraOptions bundle, in the dict's iteration order.
CamAttrs == <<"displayFilmGate", "overscan">>
CamAttrSet == {CamAttrs[k] : k \in 1..Len(CamAttrs)}

\* class CameraOptions: the flags are False, overscan is 1.0.
CameraOptions == [a \in CamAttrSet |-> IF a = "overscan" THEN 1 ELSE 0]
CustomCameraOptions == [a \in CamAttrSet |-> IF a = "overscan" THEN 0 ELSE 1]

\* The colors of _applied_display_options, in the order of its list.
colors == <<"background", "backgroundTop", "backgroundBottom">>
ColorSet == {colors[k] : k \in 1..Len(colors)}

\* class DisplayOptions: the default colors and the gradient flag.
DisplayOptions ==
    [background |-> "grey631", backgroundTop |-> "blue535",
     backgroundBottom |-> "black052", displayGradient |-> TRUE]
CustomDisplayOptions ==
    [background |-> "white", backgroundTop |-> "white",
     backgroundBottom |-> "white", displayGradient |-> FALSE]
UserColors == [c \in ColorSet |-> "user"]

\* The six scopes with the time scope first.
ScopeOrderTimeFirst ==
    <<"time", "camera", "viewport", "camopts", "display", "isolate">>

\* The six scopes of capture()'s contextlib.nested, in its argument order.
ScopeOrder == <<"camera", "viewport", "camopts", "display", "isolate", "time">>

\* The host calls of _independent_panel before its try, in order.
PanelSteps ==
    <<"window", "paneLayout", "modelPanel", "barLayout", "frameLayout",
      "showWindow", "modelEditor", "activeView", "refresh">>

\* Paths the render primitive may return (characters; '#' is frame padding).
OutPaths ==
    {<<"a", ".", "m">>, <<"a", ".", "#", "#", "#", ".", "p">>,
     <<"#", "a", "#", "#">>}

VARIABLES
    \* host state
    camAttr,        \* camera -> attribute -> value
    readable,       \* the attributes getAttr can read on a camera
    rnd,            \* camera -> renderable flag
    rgb,            \* displayRGBColor: color name -> value
    gradient,       \* displayPref displayGradient
    time,           \* currentTime
    playback,       \* playbackOptions minTime / maxTime
    resolution,     \* defaultResolution width, height, deviceAspectRatio
    standalone,     \* _in_standalone()
    window,         \* the capture window exists
    windowSize,     \* the width and height the capture window was made with
    panel,          \* the capture model panel exists
    clipboard,      \* the system clipboard's image
    \* the call
    calls,          \* two overlapping calls of capture(): caller -> locals
    args,           \* entry point and arguments
    pre,            \* the host state when the call was made
    \* locals of capture(), snap() and the context managers
    pc, idx, camera, frames, size, options, old_options, original, current_time,
    state, exits, exc, output, pb,
    \* what the caller and the host saw
    result, trace, raised

hostVars ==
    <<camAttr, rnd, rgb, gradient, time, window, windowSize, panel, clipboard>>
envVars == <<readable, playback, resolution, standalone, args, pre, calls>>
localVars ==
    <<idx, camera, frames, size, options, old_options, original, current_time,
      state, exits, exc, output, pb>>
vars == <<hostVars, envVars, localVars, pc, result, trace, raised>>

\* ------------------------------------------------------------------- Init
NoFrames == [start_frame |-> Absent, end_frame |-> Absent, frame |-> Absent]

\* A keyword parameter that was not passed takes its default, None.
DefaultNone(v) == IF v = Absent THEN NoneV ELSE v

\* The empty dict.
EmptyMap == [x \in {} |-> 0]

HostSnapshot ==
    [camAttr |-> camAttr, rnd |-> rnd, rgb |-> rgb, gradient |-> gradient,
     time |-> time]

InitCall ==
    /\ idx = 1
    /\ camera = ""
    /\ frames = [start_frame |-> DefaultNone(args.kw.start_frame),
                 end_frame |-> DefaultNone(args.kw.end_frame),
                 frame |-> DefaultNone(args.kw.frame),
                 kwargs |-> Absent]
    /\ size = [width |-> args.width, height |-> args.height]
    /\ windowSize = NoneV
    /\ options = EmptyMap
    /\ old_options = EmptyMap
    /\ original = EmptyMap
    /\ current_time = 0
    /\ state = EmptyMap
    /\ exits = <<>>
    /\ exc = "none"
    /\ output = NoneV
    /\ pb = NoneV
    /\ result = [kind |-> "running"]
    /\ trace = <<>>
    /\ raised = <<>>
    /\ window = FALSE
    /\ panel = FALSE
    /\ clipboard = NoneV
    /\ pre = HostSnapshot

\* One call of capture() or snap().
InitLocals ==
    /\ InitCall
    /\ calls = EmptyMap
    /\ pc = IF args.entry = "snap" THEN "snap" ELSE "capture"

\* The display preferences of a session: the user's, or the defaults.
UserDisplay == [rgb |-> UserColors, gradient |-> FALSE]
DefaultDisplay ==
    [rgb |-> [c \in ColorSet |-> DisplayOptions[c]],
     gradient |-> DisplayOptions.displayGradient]

\* The render settings of a scene: 6 x 4 pixels, device aspect ratio 1.5.
DefaultResolution == [width |-> Num(6), height |-> Num(4), ratio |-> Float(3, 2)]

\* Any scene, capture() with default frame arguments.
InitScene ==
    /\ camAttr \in [Cameras -> {CameraOptions, CustomCameraOptions}]
    /\ camAttr["persp"] = camAttr["cam2"]
    /\ readable \in {CamAttrSet, CamAttrSet \ {"overscan"}}
    /\ rnd \in [Cameras -> BOOLEAN]
    /\ \E d \in {UserDisplay, DefaultDisplay} :
          rgb = d.rgb /\ gradient = d.gradient
    /\ time = MaxTime
    /\ playback = [min |-> MaxTime + 1, max |-> MaxTime + 2]
    /\ resolution = DefaultResolution
    /\ standalone \in BOOLEAN
    /\ args \in [entry : {"capture"}, camera : CameraArgs, kw : {NoFrames},
                 camera_options : {NoneV, Str("custom")},
                 display_options : {NoneV, Str("custom")},
                 isolate : {NoneV, List(<<"n1">>)},
                 filename : {<<"a", ".", "m">>}, clipboard : {FALSE},
                 width : {NoneV}, height : {NoneV},
                 maintain_aspect_ratio : {TRUE}]
    /\ (args.camera_options = NoneV) <=> (args.display_options = NoneV)
    /\ InitLocals

FrameArgs ==
    {Absent, NoneV, Num(0), Num(1), Num(-1), Num(12), Float(3, 2),
     List(<<>>), List(<<1>>), Str("f")}

\* One scene, capture() and snap() with every frame argument.
InitFrames ==
    /\ camAttr = [c \in Cameras |-> CustomCameraOptions]
    /\ readable = CamAttrSet
    /\ rnd = [c \in Cameras |-> FALSE]
    /\ rgb = UserColors
    /\ gradient = FALSE
    /\ time \in Times
    /\ playback = [min |-> MaxTime + 1, max |-> MaxTime + 2]
    /\ resolution = DefaultResolution
    /\ standalone \in BOOLEAN
    /\ args \in [entry : {"capture", "snap"}, camera : {""},
                 kw : [start_frame : {Absent, Num(0), Num(1)},
                       end_frame : {Absent, Num(0), Num(1)},
                       frame : FrameArgs],
                 camera_options : {NoneV}, display_options : {NoneV},
                 isolate : {NoneV}, filename : OutPaths,
                 clipboard : BOOLEAN, width : {NoneV}, height : {NoneV},
                 maintain_aspect_ratio : {TRUE}]
    /\ args.entry = "snap" =>
         /\ args.kw.start_frame = Absent /\ args.kw.end_frame = Absent
         /\ standalone => args.clipboard
    /\ args.entry = "capture" =>
         /\ ~args.clipboard /\ ~standalone /\ time = 0
         /\ args.filename = <<"a", ".", "m">>
    /\ InitLocals

\* One scene, capture() with every combination of the size arguments.
InitSize ==
    /\ camAttr = [c \in Cameras |-> CustomCameraOptions]
    /\ readable = CamAttrSet
    /\ rnd = [c \in Cameras |-> FALSE]
    /\ rgb = UserColors
    /\ gradient = FALSE
    /\ time = 0
    /\ playback = [min |-> MaxTime + 1, max |-> MaxTime + 2]
    /\ resolution \in [width : {Num(6)}, height : {Num(4)},
                       ratio : {Float(3, 2), Float(2, 1)}]
    /\ standalone = FALSE
    /\ args \in [entry : {"capture"}, camera : {""}, kw : {NoFrames},
                 camera_options : {NoneV}, display_options : {NoneV},
                 isolate : {NoneV}, filename : {<<"a", ".", "m">>},
                 clipboard : {FALSE}, width : {NoneV, Num(0), Num(8), Num(9)},
                 height : {NoneV, Num(5)}, maintain_aspect_ratio : BOOLEAN]
    /\ InitLocals

Init == InitScene \/ InitFrames \/ InitSize

\* ------------------------------------------------------------ host faults
\* A host call may raise while fewer than MaxFaults calls have raised.
CanRaise == Len(raised) < MaxFaults

\* cmds.objExists
objExists(c) == c \in Cameras

\* ---------------------------------------------------------------- snap()
\* A check that turns away None only.
IsNotNone(v) == v.t # "none"

\* isinstance(frame, (int, float))
IsScalar(v) == v.t \in {"num", "float"}

\* snap(), up to its call of capture(): the frame defaults to the current
\* time and is given as start_frame, end_frame and frame.
Snap ==
    /\ pc = "snap"
    /\ LET frame == IF args.kw.frame = Absent THEN Num(time) ELSE args.kw.frame
       IN /\ frames' = [start_frame |-> frame, end_frame |-> frame,
                        frame |-> frame, kwargs |-> Absent]
          /\ IF IsScalar(frame)
               THEN pc' = "capture" /\ UNCHANGED result
               ELSE pc' = "done" /\ result' = [kind |-> "raise", exc |-> "TypeError"]
    /\ UNCHANGED <<hostVars, envVars, idx, camera, size, options, old_options,
                   original, current_time, state, exits, exc, output, pb,
                   trace, raised>>

\* -------------------------------------------------------------- capture()
\* camera = camera or "persp"
ResolveCamera(c) == IF c = "" THEN "persp" ELSE c

\* The existence check made only after line 118's reset of the current time.
EnsureCameraAfterReset ==
    /\ pc = "capture"
    /\ camera' = ResolveCamera(args.camera)
    /\ IF objExists(camera')
         THEN pc' = "resolve" /\ UNCHANGED <<result, trace>>
         ELSE /\ pc' = "done"
              /\ trace' = Append(trace, "currentTime")
              /\ result' = [kind |-> "raise", exc |-> "RuntimeError"]
    /\ UNCHANGED <<hostVars, envVars, idx, frames, size, options, old_options,
                   original, current_time, state, exits, exc, output, pb,
                   raised>>

\* Lines 91-95: the camera must exist.
EnsureCamera ==
    /\ pc = "capture"
    /\ camera' = ResolveCamera(args.camera)
    /\ IF objExists(camera')
         THEN pc' = "resolve" /\ UNCHANGED result
         ELSE pc' = "done" /\ result' = [kind |-> "raise", exc |-> "RuntimeError"]
    /\ UNCHANGED <<hostVars, envVars, idx, frames, size, options, old_options,
                   original, current_time, state, exits, exc, output, pb,
                   trace, raised>>

\* start_frame = start_frame or cmds.playbackOptions(minTime=True, query=True)
ResolveStart(sf, range) == PyOr(sf, Num(range.min))

\* end_frame = end_frame or cmds.playbackOptions(maxTime=True, query=True)
ResolveEnd(ef, range) == PyOr(ef, Num(range.max))

\* if frame: playblast_kwargs['frame'] = frame
FrameKwarg(f) == IF Truthy(f) THEN f ELSE Absent

\* The greatest common divisor of two positive integers.
RECURSIVE GCD(_, _)
GCD(a, b) == IF b = 0 THEN a ELSE GCD(b, a % b)

\* Python 2's int / float: true division, a float (here for a > 0, b > 0).
PyDiv(a, b) ==
    LET n == a.n * b.d
        d == b.n
    IN Float(n \div GCD(n, d), d \div GCD(n, d))

\* Python's number + int.
PyAdd(v, k) == IF v.t = "float" THEN Float(v.n + k * v.d, v.d) ELSE Num(v.n + k)

\* width = width or cmds.getAttr("defaultResolution.width")
ResolveWidth(w, res) == PyOr(w, res.width)

\* height = height or cmds.getAttr("defaultResolution.height"), then
\* height = width / ratio if maintain_aspect_ratio.
ResolveHeight(w, h, keep, res) ==
    IF keep THEN PyDiv(w, res.ratio) ELSE PyOr(h, res.height)

\* Line 120: the margin added to the window around the image.
padding == 10

\* Lines 97-113: the size, the frame range and the optional playblast
\* keywords.
ResolveArgs ==
    /\ pc = "resolve"
    /\ size' = [width |-> ResolveWidth(size.width, resolution),
                height |-> ResolveHeight(ResolveWidth(size.width, resolution),
                                         size.height,
                                         args.maintain_aspect_ratio,
                                         resolution)]
    /\ frames' = [start_frame |-> ResolveStart(frames.start_frame, playback),
                  end_frame |-> ResolveEnd(frames.end_frame, playback),
                  frame |-> frames.frame,
                  kwargs |-> FrameKwarg(frames.frame)]
    /\ pc' = "reset_time"
    /\ UNCHANGED <<hostVars, envVars, idx, camera, options, old_options,
                   original, current_time, state, exits, exc, output, pb,
                   result, trace, raised>>

\* Line 118: cmds.currentTime(cmds.currentTime(q=1)), outside every scope.
ResetTime ==
    /\ pc = "reset_time"
    /\ trace' = Append(trace, "currentTime")
    /\ \/ /\ pc' = "create"
          /\ idx' = 1
          /\ UNCHANGED <<result, raised>>
       \/ /\ CanRaise
          /\ raised' = Append(raised, "currentTime")
          /\ result' = [kind |-> "raise", exc |-> "currentTime"]
          /\ pc' = "done"
          /\ UNCHANGED idx
    /\ UNCHANGED <<hostVars, envVars, camera, frames, size, options, old_options,
                   original, current_time, state, exits, exc, output, pb>>

\* Lines 334-361: _independent_panel before its try; a call that raises here
\* propagates with no cleanup.
PanelCreate ==
    /\ pc = "create"
    /\ LET step == PanelSteps[idx]
       IN /\ trace' = Append(trace, step)
          /\ \/ /\ window' = (window \/ step = "window")
                /\ windowSize' =
                      IF step = "window"
                        THEN [width |-> PyAdd(size.width, padding),
                              height |-> PyAdd(size.height, padding)]
                        ELSE windowSize
                /\ panel' = (panel \/ step = "modelPanel")
                /\ IF idx = Len(PanelSteps)
                     THEN pc' = "focus" /\ idx' = 1
                     ELSE pc' = "create" /\ idx' = idx + 1
                /\ UNCHANGED <<result, raised>>
             \/ /\ CanRaise
                /\ raised' = Append(raised, step)
                /\ result' = [kind |-> "raise", exc |-> step]
                /\ pc' = "done"
                /\ UNCHANGED <<window, windowSize, panel, idx>>
    /\ UNCHANGED <<camAttr, rnd, rgb, gradient, time, clipboard, envVars,
                   camera, frames, size, options, old_options, original,
                   current_time, state, exits, exc, output, pb>>

\* ------------------------------------------------------ contextlib.nested
\* Where the __enter__ of each scope starts.
EntryPc(s) ==
    CASE s = "camera" -> "enter_camera"
      [] s = "viewport" -> "enter_viewport"
      [] s = "camopts" -> "camopts_read"
      [] s = "display" -> "enter_display"
      [] s = "isolate" -> "enter_isolate"
      [] s = "time" -> "enter_time"

\* nested(): `for mgr in managers`, then the body of the with statement.
NextEnter(k) ==
    IF k > Len(ScopeOrder) THEN "playblast" ELSE EntryPc(ScopeOrder[k])

\* Marks in the trace: a scope's __enter__ returned, its __exit__ is called.
EnterMark(s) == "enter:" \o s
ExitMark(s) == "exit:" \o s

\* The scope entered first, as a queue would release.
NextExitFifo(stack) == stack[1]

\* nested(): `exit = exits.pop()`, the scope entered last.
NextExit(stack) == stack[Len(stack)]

\* Restores written after the yield with no try/finally: skipped when the
\* body raised.
ExitPcNoFinally(s) ==
    IF exc # "none" THEN "unwind"
    ELSE CASE s = "camera" -> IF DOMAIN state = {} THEN "unwind" ELSE "exit_camera"
           [] s = "camopts" -> "exit_camopts"
           [] s = "display" -> "exit_display"
           [] s = "time" -> "exit_time"
           [] OTHER -> "unwind"

\* Where the __exit__ of each scope starts: the scopes without a finally
\* clause (viewport options, isolation) release nothing.
ExitPc(s) ==
    CASE s = "camera" -> IF DOMAIN state = {} THEN "unwind" ELSE "exit_camera"
      [] s = "camopts" -> IF DOMAIN old_options = {} THEN "unwind" ELSE "exit_camopts"
      [] s = "display" -> "exit_display"
      [] s = "time" -> "exit_time"
      [] OTHER -> "unwind"

\* Line 123: cmds.setFocus(panel), inside the panel's with block.
SetFocus ==
    /\ pc = "focus"
    /\ trace' = Append(trace, "setFocus")
    /\ \/ /\ pc' = NextEnter(1)
          /\ UNCHANGED <<exc, raised>>
       \/ /\ CanRaise
          /\ raised' = Append(raised, "setFocus")
          /\ exc' = "setFocus"
          /\ pc' = "del_panel"
    /\ UNCHANGED <<hostVars, envVars, idx, camera, frames, size, options,
                   old_options, original, current_time, state, exits, output,
                   pb, result>>

\* The look-through used whatever the execution mode.
AlwaysLookThru == TRUE

\* if not _in_standalone(): the interactive look-through is used.
UseLookThru == ~standalone

\* The cameras of cmds.ls(type="camera"), in the order of the state dict.
CameraOrder == <<"persp", "cam2">>

\* Lines 475-482: _maintain_camera's __enter__.
EnterMaintainCamera ==
    /\ pc = "enter_camera"
    /\ \/ /\ UseLookThru
          /\ \/ /\ exits' = Append(exits, "camera")
                /\ trace' = trace \o <<"lookThru", EnterMark("camera")>>
                /\ pc' = NextEnter(Len(exits) + 2)
                /\ UNCHANGED <<exc, raised>>
             \/ /\ CanRaise
                /\ raised' = Append(raised, "lookThru")
                /\ trace' = Append(trace, "lookThru")
                /\ exc' = "lookThru"
                /\ pc' = "unwind"
                /\ UNCHANGED exits
          /\ UNCHANGED <<state, rnd>>
       \/ /\ ~UseLookThru
          /\ \/ /\ state' = [c \in Cameras |-> rnd[c]]
                /\ rnd' = [rnd EXCEPT ![camera] = TRUE]
                /\ trace' = trace \o <<"getAttr.rnd", "setAttr.rnd",
                                       EnterMark("camera")>>
                /\ exits' = Append(exits, "camera")
                /\ pc' = NextEnter(Len(exits) + 2)
                /\ UNCHANGED <<exc, raised>>
             \/ /\ CanRaise
                /\ raised' = Append(raised, "setAttr.rnd")
                /\ trace' = trace \o <<"getAttr.rnd", "setAttr.rnd">>
                /\ exc' = "setAttr.rnd"
                /\ pc' = "unwind"
                /\ UNCHANGED <<exits, state, rnd>>
    /\ UNCHANGED <<camAttr, rgb, gradient, time, window, windowSize, panel, clipboard,
                   envVars, idx, camera, frames, size, options, old_options,
                   original, current_time, output, pb, result>>

\* Lines 375-384: _applied_viewport_options' __enter__ (two modelEditor
\* edits of the capture panel).
EnterViewportOptions ==
    /\ pc = "enter_viewport"
    /\ \/ /\ exits' = Append(exits, "viewport")
          /\ trace' = trace \o <<"modelEditor.edit", EnterMark("viewport")>>
          /\ pc' = NextEnter(Len(exits) + 2)
          /\ UNCHANGED <<exc, raised>>
       \/ /\ CanRaise
          /\ raised' = Append(raised, "modelEditor.edit")
          /\ trace' = Append(trace, "modelEditor.edit")
          /\ exc' = "modelEditor.edit"
          /\ pc' = "unwind"
          /\ UNCHANGED exits
    /\ UNCHANGED <<hostVars, envVars, idx, camera, frames, size, options,
                   old_options, original, current_time, state, output, pb,
                   result>>

\* options = options or CameraOptions(); options = _parse_options(options)
ParsedCameraOptions ==
    IF args.camera_options = NoneV THEN CameraOptions ELSE CustomCameraOptions

\* The fields before the k-th of the bundle, in iteration order.
AttrsBefore(k) == {CamAttrs[j] : j \in 1..(k - 1)}

\* The first field of the bundle that getAttr cannot read (0: none).
FirstUnreadable ==
    IF \E k \in 1..Len(CamAttrs) : CamAttrs[k] \notin readable
    THEN CHOOSE k \in 1..Len(CamAttrs) :
            /\ CamAttrs[k] \notin readable
            /\ \A j \in 1..(k - 1) : CamAttrs[j] \in readable
    ELSE 0

\* Lines 391-401: the originals are read; for a field that cannot be read
\* the handler writes the warning and calls delattr(options, opt) on the
\* dict of options, which raises AttributeError out of __enter__.
CamOptsRead ==
    /\ pc = "camopts_read"
    /\ options' = ParsedCameraOptions
    /\ IF FirstUnreadable = 0
         THEN /\ old_options' = [a \in CamAttrSet |-> camAttr[camera][a]]
              /\ pc' = "camopts_apply"
              /\ idx' = 1
              /\ UNCHANGED <<exc, trace>>
         ELSE /\ old_options' =
                   [a \in AttrsBefore(FirstUnreadable) |-> camAttr[camera][a]]
              /\ trace' = Append(trace, "stderr.write")
              /\ exc' = "AttributeError"
              /\ pc' = "unwind"
              /\ UNCHANGED idx
    /\ UNCHANGED <<hostVars, envVars, camera, frames, size, original, current_time,
                   state, exits, output, pb, result, raised>>

\* Lines 403-404: the bundle is applied, one setAttr per field.
CamOptsApply ==
    /\ pc = "camopts_apply"
    /\ \/ /\ camAttr' =
                [camAttr EXCEPT ![camera][CamAttrs[idx]] = options[CamAttrs[idx]]]
          /\ IF idx = Len(CamAttrs)
               THEN /\ exits' = Append(exits, "camopts")
                    /\ trace' = trace \o <<"setAttr", EnterMark("camopts")>>
                    /\ pc' = NextEnter(Len(exits) + 2)
                    /\ idx' = 1
               ELSE /\ idx' = idx + 1
                    /\ trace' = Append(trace, "setAttr")
                    /\ UNCHANGED <<exits, pc>>
          /\ UNCHANGED <<exc, raised>>
       \/ /\ CanRaise
          /\ raised' = Append(raised, "setAttr")
          /\ trace' = Append(trace, "setAttr")
          /\ exc' = "setAttr"
          /\ pc' = "unwind"
          /\ UNCHANGED <<camAttr, exits, idx>>
    /\ UNCHANGED <<rnd, rgb, gradient, time, window, windowSize, panel, clipboard,
                   envVars, camera, frames, size, options, old_options, original,
                   current_time, state, output, pb, result>>

\* options = options or DisplayOptions()
DisplayBundle ==
    IF args.display_options = NoneV THEN DisplayOptions ELSE CustomDisplayOptions

\* Lines 423-429: the three colors and the gradient preference are read.
EnterDisplayOptions ==
    /\ pc = "enter_display"
    /\ original' = [background |-> rgb["background"],
                    backgroundTop |-> rgb["backgroundTop"],
                    backgroundBottom |-> rgb["backgroundBottom"],
                    displayGradient |-> gradient]
    /\ pc' = "display_apply"
    /\ idx' = 1
    /\ UNCHANGED <<hostVars, envVars, camera, frames, size, options, old_options,
                   current_time, state, exits, exc, output, pb, result, trace,
                   raised>>

\* One displayRGBColor / displayPref call writing `bundle`: the k-th color
\* for k <= 3, then the gradient preference.
DisplayWrite(bundle, k) ==
    IF k <= Len(colors)
    THEN /\ rgb' = [rgb EXCEPT ![colors[k]] = bundle[colors[k]]]
         /\ UNCHANGED gradient
    ELSE /\ gradient' = bundle.displayGradient
         /\ UNCHANGED rgb

\* Lines 431-438: the bundle is applied, one host call per field.
DisplayApply ==
    /\ pc = "display_apply"
    /\ \/ /\ DisplayWrite(DisplayBundle, idx)
          /\ IF idx = Len(colors) + 1
               THEN /\ exits' = Append(exits, "display")
                    /\ trace' = trace \o <<"displayRGBColor", EnterMark("display")>>
                    /\ pc' = NextEnter(Len(exits) + 2)
                    /\ idx' = 1
               ELSE /\ idx' = idx + 1
                    /\ trace' = Append(trace, "displayRGBColor")
                    /\ UNCHANGED <<exits, pc>>
          /\ UNCHANGED <<exc, raised>>
       \/ /\ CanRaise
          /\ raised' = Append(raised, "displayRGBColor")
          /\ trace' = Append(trace, "displayRGBColor")
          /\ exc' = "displayRGBColor"
          /\ pc' = "unwind"
          /\ UNCHANGED <<rgb, gradient, exits, idx>>
    /\ UNCHANGED <<camAttr, rnd, time, window, windowSize, panel, clipboard, envVars,
                   camera, frames, size, options, old_options, original,
                   current_time, state, output, pb, result>>

\* Lines 455-459: _isolated_nodes' __enter__; no host call without nodes.
EnterIsolatedNodes ==
    /\ pc = "enter_isolate"
    /\ \/ /\ args.isolate = NoneV
          /\ exits' = Append(exits, "isolate")
          /\ trace' = Append(trace, EnterMark("isolate"))
          /\ pc' = NextEnter(Len(exits) + 2)
          /\ UNCHANGED <<exc, raised>>
       \/ /\ args.isolate # NoneV
          /\ \/ /\ exits' = Append(exits, "isolate")
                /\ trace' = trace \o <<"isolateSelect", EnterMark("isolate")>>
                /\ pc' = NextEnter(Len(exits) + 2)
                /\ UNCHANGED <<exc, raised>>
             \/ /\ CanRaise
                /\ raised' = Append(raised, "isolateSelect")
                /\ trace' = Append(trace, "isolateSelect")
                /\ exc' = "isolateSelect"
                /\ pc' = "unwind"
                /\ UNCHANGED exits
    /\ UNCHANGED <<hostVars, envVars, idx, camera, frames, size, options,
                   old_options, original, current_time, state, output, pb,
                   result>>

\* Line 466: _maintained_time's __enter__ reads the current time; the query
\* may raise.
EnterMaintainedTime ==
    /\ pc = "enter_time"
    /\ \/ /\ current_time' = time
          /\ exits' = Append(exits, "time")
          /\ trace' = Append(trace, EnterMark("time"))
          /\ pc' = NextEnter(Len(exits) + 2)
          /\ UNCHANGED <<exc, raised>>
       \/ /\ CanRaise
          /\ raised' = Append(raised, "currentTime.query")
          /\ exc' = "currentTime"
          /\ pc' = "unwind"
          /\ UNCHANGED <<current_time, exits, trace>>
    /\ UNCHANGED <<hostVars, envVars, idx, camera, frames, size, options,
                   old_options, original, state, output, pb, result>>

\* Lines 133-146: cmds.playblast inside all six scopes; it scrubs the
\* timeline, then returns the output path or raises.
Playblast ==
    /\ pc = "playblast"
    /\ pb' = [startTime |-> frames.start_frame, endTime |-> frames.end_frame,
              frame |-> frames.kwargs,
              widthHeight |-> <<size.width, size.height>>]
    /\ trace' = Append(trace, "playblast")
    /\ \E t \in Times : time' = t
    /\ \/ /\ output' = args.filename
          /\ UNCHANGED <<exc, raised>>
       \/ /\ CanRaise
          /\ raised' = Append(raised, "playblast")
          /\ exc' = "playblast"
          /\ UNCHANGED output
    /\ pc' = "unwind"
    /\ UNCHANGED <<camAttr, rnd, rgb, gradient, window, windowSize, panel, clipboard,
                   envVars, idx, camera, frames, size, options, old_options,
                   original, current_time, state, exits, result>>

\* The labels of the host calls of the finally clauses that can raise.
ReleaseFaults ==
    {"exit:currentTime", "exit:displayRGBColor", "exit:setAttr",
     "exit:setAttr.rnd"}

\* An unwinding that gives up the scopes still held once an __exit__ raised.
UnwindStopsAtExitError ==
    /\ pc = "unwind"
    /\ IF exits = <<>> \/ \E k \in 1..Len(raised) : raised[k] \in ReleaseFaults
         THEN /\ pc' = "del_panel"
              /\ exits' = <<>>
              /\ UNCHANGED <<trace, idx>>
         ELSE /\ exits' = SelectSeq(exits, LAMBDA s : s # NextExit(exits))
              /\ trace' = Append(trace, ExitMark(NextExit(exits)))
              /\ pc' = ExitPc(NextExit(exits))
              /\ idx' = 1
    /\ UNCHANGED <<hostVars, envVars, camera, frames, size, options, old_options,
                   original, current_time, state, exc, output, pb, result,
                   raised>>

\* nested()'s finally: `while exits: exit = exits.pop()`, each __exit__
\* called with the pending exception and an exception it raises caught and
\* made the pending one; then the panel's with block is left.
Unwind ==
    /\ pc = "unwind"
    /\ IF exits = <<>>
         THEN /\ pc' = "del_panel"
              /\ UNCHANGED <<exits, trace, idx>>
         ELSE /\ exits' = SelectSeq(exits, LAMBDA s : s # NextExit(exits))
              /\ trace' = Append(trace, ExitMark(NextExit(exits)))
              /\ pc' = ExitPc(NextExit(exits))
              /\ idx' = 1
    /\ UNCHANGED <<hostVars, envVars, camera, frames, size, options, old_options,
                   original, current_time, state, exc, output, pb, result,
                   raised>>

\* Line 470: cmds.currentTime(current_time)
ExitMaintainedTime ==
    /\ pc = "exit_time"
    /\ trace' = Append(trace, "currentTime")
    /\ \/ /\ time' = current_time
          /\ UNCHANGED <<exc, raised>>
       \/ /\ CanRaise
          /\ raised' = Append(raised, "exit:currentTime")
          /\ exc' = "currentTime"
          /\ UNCHANGED time
    /\ pc' = "unwind"
    /\ UNCHANGED <<camAttr, rnd, rgb, gradient, window, windowSize, panel, clipboard,
                   envVars, idx, camera, frames, size, options, old_options,
                   original, current_time, state, exits, output, pb, result>>

\* Lines 445-448: the originals are written back, one host call per field;
\* a call that raises leaves the rest unrestored.
ExitDisplayOptions ==
    /\ pc = "exit_display"
    /\ trace' = Append(trace, "displayRGBColor")
    /\ \/ /\ DisplayWrite(original, idx)
          /\ IF idx = Len(colors) + 1
               THEN pc' = "unwind" /\ idx' = 1
               ELSE pc' = "exit_display" /\ idx' = idx + 1
          /\ UNCHANGED <<exc, raised>>
       \/ /\ CanRaise
          /\ raised' = Append(raised, "exit:displayRGBColor")
          /\ exc' = "displayRGBColor"
          /\ pc' = "unwind"
          /\ UNCHANGED <<rgb, gradient, idx>>
    /\ UNCHANGED <<camAttr, rnd, time, window, windowSize, panel, clipboard, envVars,
                   camera, frames, size, options, old_options, original,
                   current_time, state, exits, output, pb, result>>

\* The exit writing the applied bundle again instead of the originals.
ExitCameraOptionsApplied ==
    /\ pc = "exit_camopts"
    /\ trace' = Append(trace, "setAttr")
    /\ camAttr' = [camAttr EXCEPT ![camera][CamAttrs[idx]] = options[CamAttrs[idx]]]
    /\ IF idx = Len(CamAttrs)
         THEN pc' = "unwind" /\ idx' = 1
         ELSE pc' = "exit_camopts" /\ idx' = idx + 1
    /\ UNCHANGED <<rnd, rgb, gradient, time, window, windowSize, panel, clipboard,
                   envVars, camera, frames, size, options, old_options, original,
                   current_time, state, exits, output, pb, result, exc, raised>>

\* Lines 409-411: every original that was read is written back.
ExitCameraOptions ==
    /\ pc = "exit_camopts"
    /\ trace' = Append(trace, "setAttr")
    /\ \/ /\ camAttr' =
                [camAttr EXCEPT ![camera][CamAttrs[idx]] = old_options[CamAttrs[idx]]]
          /\ IF idx = Len(CamAttrs)
               THEN pc' = "unwind" /\ idx' = 1
               ELSE pc' = "exit_camopts" /\ idx' = idx + 1
          /\ UNCHANGED <<exc, raised>>
       \/ /\ CanRaise
          /\ raised' = Append(raised, "exit:setAttr")
          /\ exc' = "setAttr"
          /\ pc' = "unwind"
          /\ UNCHANGED <<camAttr, idx>>
    /\ UNCHANGED <<rnd, rgb, gradient, time, window, windowSize, panel, clipboard,
                   envVars, camera, frames, size, options, old_options, original,
                   current_time, state, exits, output, pb, result>>

\* Lines 487-488: every snapshotted renderable flag is written back.
ExitMaintainCamera ==
    /\ pc = "exit_camera"
    /\ trace' = Append(trace, "setAttr.rnd")
    /\ \/ /\ rnd' = [rnd EXCEPT ![CameraOrder[idx]] = state[CameraOrder[idx]]]
          /\ IF idx = Len(CameraOrder)
               THEN pc' = "unwind" /\ idx' = 1
               ELSE pc' = "exit_camera" /\ idx' = idx + 1
          /\ UNCHANGED <<exc, raised>>
       \/ /\ CanRaise
          /\ raised' = Append(raised, "exit:setAttr.rnd")
          /\ exc' = "setAttr.rnd"
          /\ pc' = "unwind"
          /\ UNCHANGED <<rnd, idx>>
    /\ UNCHANGED <<camAttr, rgb, gradient, time, window, windowSize, panel, clipboard,
                   envVars, camera, frames, size, options, old_options, original,
                   current_time, state, exits, output, pb, result>>

\* Line 367: cmds.deleteUI(panel, panel=True), first in the finally clause;
\* if it raises, line 368 is not reached.
DeletePanel ==
    /\ pc = "del_panel"
    /\ trace' = Append(trace, "deleteUI.panel")
    /\ \/ /\ panel' = FALSE
          /\ pc' = "del_window"
          /\ UNCHANGED <<exc, raised>>
       \/ /\ CanRaise
          /\ raised' = Append(raised, "deleteUI.panel")
          /\ exc' = "deleteUI.panel"
          /\ pc' = "return"
          /\ UNCHANGED panel
    /\ UNCHANGED <<camAttr, rnd, rgb, gradient, time, window, windowSize, clipboard,
                   envVars, idx, camera, frames, size, options, old_options,
                   original, current_time, state, exits, output, pb, result>>

\* Line 368: cmds.deleteUI(window), last in the finally clause.
DeleteWindow ==
    /\ pc = "del_window"
    /\ trace' = Append(trace, "deleteUI.window")
    /\ \/ /\ window' = FALSE
          /\ UNCHANGED <<exc, raised>>
       \/ /\ CanRaise
          /\ raised' = Append(raised, "deleteUI.window")
          /\ exc' = "deleteUI.window"
          /\ UNCHANGED window
    /\ pc' = "return"
    /\ UNCHANGED <<camAttr, rnd, rgb, gradient, time, windowSize, panel,
                   clipboard, envVars, idx, camera, frames, size, options, old_options,
                   original, current_time, state, exits, output, pb, result>>

\* Line 148 and the end of the with statement: an exception left pending by
\* a scope, by the body or by the finally clause propagates; otherwise the
\* render primitive's output is returned (to snap(), or to the caller).
CaptureReturn ==
    /\ pc = "return"
    /\ IF exc # "none"
         THEN pc' = "done" /\ result' = [kind |-> "raise", exc |-> exc]
         ELSE IF args.entry = "snap"
              THEN pc' = "snap_post" /\ UNCHANGED result
              ELSE pc' = "done" /\ result' = [kind |-> "return", value |-> output]
    /\ UNCHANGED <<hostVars, envVars, localVars, trace, raised>>

\* int(frame): a float is truncated towards zero.
PyInt(v) ==
    IF v.t = "float"
      THEN IF v.n >= 0 THEN v.n \div v.d ELSE -((-v.n) \div v.d)
      ELSE v.n

\* The decimal digits of n >= 0, as characters.
RECURSIVE DecimalStr(_)
DecimalStr(n) ==
    LET d == <<"0", "1", "2", "3", "4", "5", "6", "7", "8", "9">>
    IN IF n < 10 THEN <<d[n + 1]>> ELSE DecimalStr(n \div 10) \o <<d[(n % 10) + 1]>>

\* str(n) of an int.
PyStr(n) == IF n < 0 THEN <<"-">> \o DecimalStr(-n) ELSE DecimalStr(n)

\* A zfill that pads nothing.
zfillNone(str, width) == str

\* str.zfill(width): zeros are inserted after a leading sign.
zfill(str, width) ==
    LET fill == [k \in 1..(width - Len(str)) |-> "0"]
    IN IF Len(str) >= width THEN str
       ELSE IF str # <<>> /\ Head(str) \in {"+", "-"}
            THEN <<Head(str)>> \o fill \o Tail(str)
            ELSE fill \o str

\* The length of the run of '#' that starts the path.
RECURSIVE HashRun(_)
HashRun(path) ==
    IF path # <<>> /\ Head(path) = "#" THEN 1 + HashRun(Tail(path)) ELSE 0

\* re.sub("#+", replace, output): each maximal run of '#' becomes
\* str(int(frame)).zfill(len(run)).
RECURSIVE SubstituteFrame(_, _)
SubstituteFrame(path, n) ==
    IF path = <<>> THEN <<>>
    ELSE IF Head(path) = "#"
         THEN zfill(PyStr(n), HashRun(path))
                 \o SubstituteFrame(SubSeq(path, HashRun(path) + 1, Len(path)), n)
         ELSE <<Head(path)>> \o SubstituteFrame(Tail(path), n)

\* Lines 194-204: snap() after capture() returned: the padding is replaced
\* by the frame number and the image is put on the clipboard when asked;
\* _image_to_clipboard raises in standalone mode.
SnapFinish ==
    /\ pc = "snap_post"
    /\ output' = SubstituteFrame(output, PyInt(frames.frame))
    /\ pc' = "done"
    /\ \/ /\ ~args.clipboard
          /\ result' = [kind |-> "return", value |-> output']
          /\ UNCHANGED clipboard
       \/ /\ args.clipboard
          /\ standalone
          /\ result' = [kind |-> "raise", exc |-> "Exception"]
          /\ UNCHANGED clipboard
       \/ /\ args.clipboard
          /\ ~standalone
          /\ clipboard' = output'
          /\ result' = [kind |-> "return", value |-> output']
    /\ UNCHANGED <<camAttr, rnd, rgb, gradient, time, window, windowSize, panel, envVars,
                   idx, camera, frames, size, options, old_options, original,
                   current_time, state, exits, exc, pb, trace, raised>>

Next ==
    \/ Snap
    \/ EnsureCamera
    \/ ResolveArgs
    \/ ResetTime
    \/ PanelCreate
    \/ SetFocus
    \/ EnterMaintainCamera
    \/ EnterViewportOptions
    \/ CamOptsRead
    \/ CamOptsApply
    \/ EnterDisplayOptions
    \/ DisplayApply
    \/ EnterIsolatedNodes
    \/ EnterMaintainedTime
    \/ Playblast
    \/ Unwind
    \/ ExitMaintainedTime
    \/ ExitDisplayOptions
    \/ ExitCameraOptions
    \/ ExitMaintainCamera
    \/ DeletePanel
    \/ DeleteWindow
    \/ CaptureReturn
    \/ SnapFinish

Spec == Init /\ [][Next]_vars

\* ------------------------------------------------- two overlapping calls
\* Two callers of capture() on the same camera of the same session, each
\* with its own bundles; a caller's steps are the entry of its scopes, its
\* render and the release of its scopes, interleaved freely with the other
\* caller's (capture() takes no lock).
Callers == {"A", "B"}

InitOverlap ==
    /\ camAttr \in [Cameras -> {CameraOptions, CustomCameraOptions}]
    /\ camAttr["persp"] = camAttr["cam2"]
    /\ readable = CamAttrSet
    /\ rnd = [c \in Cameras |-> FALSE]
    /\ \E d \in {UserDisplay, DefaultDisplay} :
          rgb = d.rgb /\ gradient = d.gradient
    /\ time \in Times
    /\ playback = [min |-> MaxTime + 1, max |-> MaxTime + 2]
    /\ resolution = DefaultResolution
    /\ standalone = FALSE
    /\ args = [entry |-> "capture", camera |-> "", kw |-> NoFrames,
               camera_options |-> NoneV, display_options |-> NoneV,
               isolate |-> NoneV, filename |-> <<"a", ".", "m">>,
               clipboard |-> FALSE, width |-> NoneV, height |-> NoneV,
               maintain_aspect_ratio |-> TRUE]
    /\ calls \in [Callers ->
                    [pc : {"capture"},
                     camera_options : {CameraOptions, CustomCameraOptions},
                     display_options : {DisplayOptions, CustomDisplayOptions},
                     old_options : {EmptyMap}, original : {EmptyMap},
                     current_time : {0}]]
    /\ InitCall
    /\ pc = "overlap"

\* The scopes of one caller are entered: _applied_camera_options and
\* _applied_display_options snapshot and apply, _maintained_time snapshots.
EnterScopes(c) ==
    /\ calls[c].pc = "capture"
    /\ calls' = [calls EXCEPT
                   ![c].pc = "playblast",
                   ![c].old_options = camAttr[ResolveCamera(args.camera)],
                   ![c].original =
                       [background |-> rgb["background"],
                        backgroundTop |-> rgb["backgroundTop"],
                        backgroundBottom |-> rgb["backgroundBottom"],
                        displayGradient |-> gradient],
                   ![c].current_time = time]
    /\ camAttr' = [camAttr EXCEPT
                     ![ResolveCamera(args.camera)] = calls[c].camera_options]
    /\ rgb' = [k \in ColorSet |-> calls[c].display_options[k]]
    /\ gradient' = calls[c].display_options.displayGradient
    /\ trace' = Append(trace, "enter:" \o c)
    /\ UNCHANGED <<rnd, time, window, windowSize, panel, clipboard, readable,
                   playback, resolution, standalone, args, pre, localVars, pc,
                   result, raised>>

\* The render of one caller moves the current time.
RenderCall(c) ==
    /\ calls[c].pc = "playblast"
    /\ calls' = [calls EXCEPT ![c].pc = "unwind"]
    /\ \E t \in Times : time' = t
    /\ trace' = Append(trace, "playblast:" \o c)
    /\ UNCHANGED <<camAttr, rnd, rgb, gradient, window, windowSize, panel,
                   clipboard, readable, playback, resolution, standalone,
                   args, pre, localVars, pc, result, raised>>

\* A release that writes the time back and nothing else.
ExitScopesTimeOnly(c) ==
    /\ calls[c].pc = "unwind"
    /\ calls' = [calls EXCEPT ![c].pc = "done"]
    /\ time' = calls[c].current_time
    /\ trace' = Append(trace, "exit:" \o c)
    /\ UNCHANGED <<camAttr, rnd, rgb, gradient, window, windowSize, panel,
                   clipboard, readable, playback, resolution, standalone,
                   args, pre, localVars, pc, result, raised>>

\* The scopes of one caller are released: each finally clause writes back
\* the snapshot its caller took.
ExitScopes(c) ==
    /\ calls[c].pc = "unwind"
    /\ calls' = [calls EXCEPT ![c].pc = "done"]
    /\ time' = calls[c].current_time
    /\ rgb' = [k \in ColorSet |-> calls[c].original[k]]
    /\ gradient' = calls[c].original.displayGradient
    /\ camAttr' = [camAttr EXCEPT
                     ![ResolveCamera(args.camera)] = calls[c].old_options]
    /\ trace' = Append(trace, "exit:" \o c)
    /\ UNCHANGED <<rnd, window, windowSize, panel, clipboard, readable,
                   playback, resolution, standalone, args, pre, localVars, pc,
                   result, raised>>

NextOverlap ==
    \E c \in Callers :
        \/ EnterScopes(c)
        \/ RenderCall(c)
        \/ ExitScopes(c)

SpecOverlap == InitOverlap /\ [][NextOverlap]_vars

\* ===================================================================
\* Properties
\* ===================================================================
Done == pc = "done"
InTrace(e) == \E k \in 1..Len(trace) : trace[k] = e
Position(e) == CHOOSE k \in 1..Len(trace) : trace[k] = e
HasRaised(e) == \E k \in 1..Len(raised) : raised[k] = e

CameraAttrsRestored == camAttr = pre.camAttr
DisplayRestored == rgb = pre.rgb /\ gradient = pre.gradient
TimeRestored == time = pre.time
RenderableRestored == rnd = pre.rnd

EnterMarks == [k \in 1..Len(ScopeOrder) |-> EnterMark(ScopeOrder[k])]
ExitMarks == [k \in 1..Len(ScopeOrder) |-> ExitMark(ScopeOrder[k])]
EnterMarkSet == {EnterMarks[k] : k \in 1..Len(ScopeOrder)}
ExitMarkSet == {ExitMarks[k] : k \in 1..Len(ScopeOrder)}
IsEnterMark(e) == e \in EnterMarkSet
IsExitMark(e) == e \in ExitMarkSet
\* The scopes entered so far and the scopes whose release has begun.
Entered == SelectSeq(trace, IsEnterMark)
Exited == SelectSeq(trace, IsExitMark)

\* C1: when the render primitive raises (and no release or destruction step
\* raises after it), then as the error reaches the caller the camera
\* attributes, the background colors, the gradient flag, the current time and
\* the renderable flags equal their values from before the call, and the
\* error that propagates is the render error.
C1_RenderFailureRestores ==
    (Done /\ raised = <<"playblast">>) =>
        /\ CameraAttrsRestored
        /\ DisplayRestored
        /\ TimeRestored
        /\ RenderableRestored
        /\ result = [kind |-> "raise", exc |-> "playblast"]

\* A headless render failure after every touched value had been changed.
C1_Witness ==
    /\ Done
    /\ raised = <<"playblast">>
    /\ standalone
    /\ ~pre.rnd[camera]
    /\ pre.camAttr[camera] # options
    /\ pre.rgb = UserColors
    /\ InTrace("exit:time")

\* A scope's release has run to its end.
Released(s) ==
    /\ InTrace(ExitMark(s))
    /\ pc \notin {"exit_time", "exit_display", "exit_camopts", "exit_camera"}
          \/ LET ex == Exited IN ex[Len(ex)] # ExitMark(s)

\* C2: applying then restoring a bundle leaves every touched value equal to
\* its value before the call: for each applier on its own once its scope
\* has been exited after a body that completed normally, and for the whole
\* composition when capture() returns.
C2_ApplyRestoreRoundTrip ==
    /\ (exc = "none" /\ raised = <<>>) =>
          /\ Released("camopts") => CameraAttrsRestored
          /\ Released("display") => DisplayRestored
          /\ Released("time") => TimeRestored
          /\ Released("camera") => RenderableRestored
    /\ (Done /\ result.kind = "return" /\ raised = <<>>) =>
          /\ CameraAttrsRestored
          /\ DisplayRestored
          /\ TimeRestored
          /\ RenderableRestored

\* A headless capture that returned after changing and restoring everything.
C2_Witness ==
    /\ Done
    /\ result.kind = "return"
    /\ raised = <<>>
    /\ standalone
    /\ ~pre.rnd[camera]
    /\ pre.camAttr[camera] # options
    /\ pre.rgb # [c \in ColorSet |-> DisplayBundle[c]]
    /\ pre.gradient # DisplayBundle.displayGradient
    /\ Released("camera")

\* C3: a camera-option field that cannot be read is dropped and the capture
\* goes on: the render primitive is invoked, capture() returns its result and
\* the camera's attributes are restored.
C3_UnreadableFieldDropped ==
    (Done /\ objExists(camera) /\ readable # CamAttrSet /\ raised = <<>>) =>
        /\ result.kind = "return"
        /\ InTrace("playblast")
        /\ CameraAttrsRestored

\* C4: with a camera name that names no object, capture() raises before any
\* host call that sets, creates or deletes: no window, no panel, no scope,
\* no write, the current-time reset included.
C4_NoCameraNoSideEffects ==
    (Done /\ ~objExists(ResolveCamera(args.camera))) =>
        /\ result = [kind |-> "raise", exc |-> "RuntimeError"]
        /\ trace = <<>>
        /\ ~window /\ ~panel
        /\ exits = <<>>
        /\ HostSnapshot = pre

C4_Witness == Done /\ args.camera = "ghost" /\ result.kind = "raise"

\* C5: the scopes are entered in the fixed order and released in strict
\* reverse order of acquisition; when entering the k-th scope raises, the
\* scopes 1..k-1 are released, in reverse order, before the error reaches the
\* caller, no later scope is entered and the render primitive is not invoked.
C5_ReverseRelease ==
    LET en == Entered
        ex == Exited
    IN /\ Len(en) <= Len(ScopeOrder)
       /\ \A k \in 1..Len(en) : en[k] = EnterMarks[k]
       /\ Len(ex) <= Len(en)
       /\ \A k \in 1..Len(ex) : ex[k] = ExitMarks[Len(en) - k + 1]
       /\ InTrace("playblast") => Len(en) = Len(ScopeOrder)
       /\ Done => Len(ex) = Len(en)
       /\ (Done /\ Len(en) < Len(ScopeOrder)) => ~InTrace("playblast")

\* Entering the fourth scope (display options) raised: three were released.
C5_Witness ==
    /\ Done
    /\ raised = <<"displayRGBColor">>
    /\ Entered = SubSeq(EnterMarks, 1, 3)
    /\ Exited = <<ExitMark("camopts"), ExitMark("viewport"), ExitMark("camera")>>
    /\ result = [kind |-> "raise", exc |-> "displayRGBColor"]

\* C6: a headless capture never invokes the look-through primitive and, once
\* the call is over (whatever raised, short of the write that restores a
\* flag), every camera's renderable flag equals its value before the call;
\* an interactive capture neither reads nor writes a renderable flag.
C6_HeadlessRenderable ==
    /\ standalone => ~InTrace("lookThru")
    /\ (Done /\ standalone /\ ~HasRaised("exit:setAttr.rnd")) => RenderableRestored
    /\ ~standalone =>
          /\ ~InTrace("getAttr.rnd")
          /\ ~InTrace("setAttr.rnd")
          /\ RenderableRestored

\* A headless capture whose render raised, the requested camera's flag having
\* been forced true and written back.
C6_Witness ==
    /\ Done
    /\ standalone
    /\ raised = <<"playblast">>
    /\ ~pre.rnd[camera]
    /\ InTrace("setAttr.rnd")
    /\ InTrace("exit:camera")

\* The panel of _independent_panel was yielded to capture()'s with block.
ViewportAcquired == InTrace("setFocus")

\* C7: once the viewport is acquired, every way out of capture() attempts the
\* destruction of the panel and then of the window, after every scope has
\* been released.
C7_ViewportAlwaysDestroyed ==
    (Done /\ ViewportAcquired) =>
        /\ InTrace("deleteUI.panel")
        /\ InTrace("deleteUI.window")
        /\ Position("deleteUI.panel") < Position("deleteUI.window")
        /\ LET p == Position("deleteUI.panel")
           IN \A k \in 1..Len(trace) : IsExitMark(trace[k]) => k < p
        /\ Len(Exited) = Len(Entered)

\* C8: when destroying the panel or the window fails after the render
\* primitive returned, capture() still returns the render primitive's result.
C8_DestroyFailureKeepsResult ==
    (/\ Done
     /\ args.entry = "capture"
     /\ output # NoneV
     /\ Len(raised) = 1
     /\ HasRaised("deleteUI.panel") \/ HasRaised("deleteUI.window")) =>
        result = [kind |-> "return", value |-> output]

\* The frame snap() was asked for: its argument, or the current time.
SnapFrame == IF args.kw.frame = Absent THEN Num(pre.time) ELSE args.kw.frame

\* C9: for every scalar frame f given to snap(), the render primitive is
\* invoked with startTime = f, endTime = f and frame = f.
C9_SnapForcesFrame ==
    (args.entry = "snap" /\ pb # NoneV) =>
        /\ pb.startTime = SnapFrame
        /\ pb.endTime = SnapFrame
        /\ pb.frame = SnapFrame

\* C10: an explicit start_frame or end_frame of capture() reaches the render
\* primitive as startTime or endTime, the playback range stands in only for
\* an argument that was not supplied, and a supplied frame argument (a
\* number, 0 included, or a list of frames) is always forwarded.
C10_ExplicitFramesForwarded ==
    (args.entry = "capture" /\ pb # NoneV) =>
        /\ pb.startTime = IF args.kw.start_frame = Absent
                          THEN Num(playback.min) ELSE args.kw.start_frame
        /\ pb.endTime = IF args.kw.end_frame = Absent
                        THEN Num(playback.max) ELSE args.kw.end_frame
        /\ args.kw.frame \notin {Absent, NoneV, List(<<>>)} =>
              pb.frame = args.kw.frame

\* C11: snap() with a frame that is not a scalar (a list, a string, None)
\* raises TypeError before capture() is invoked: no host call is made, no
\* window or panel is created, no scope is entered, the render primitive is
\* not invoked and no host state is written.
C11_NonScalarFrameRejected ==
    (args.entry = "snap" /\ SnapFrame.t \in {"none", "list", "str"}) =>
        /\ pc \in {"snap", "done"}
        /\ trace = <<>>
        /\ ~window /\ ~panel
        /\ exits = <<>>
        /\ pb = NoneV
        /\ HostSnapshot = pre
        /\ Done => result = [kind |-> "raise", exc |-> "TypeError"]

\* snap(frame=[1]) has raised.
C11_Witness ==
    /\ Done
    /\ args.entry = "snap"
    /\ args.kw.frame = List(<<1>>)
    /\ result = [kind |-> "raise", exc |-> "TypeError"]

\* The first index of a '#' in the path, or 0.
FirstHash(path) ==
    IF \E k \in 1..Len(path) : path[k] = "#"
      THEN CHOOSE k \in 1..Len(path) :
              path[k] = "#" /\ \A j \in 1..(k - 1) : path[j] # "#"
      ELSE 0

\* The last index of the run of '#' that starts at index k.
RunEnd(path, k) ==
    CHOOSE e \in k..Len(path) :
        /\ \A j \in k..e : path[j] = "#"
        /\ e = Len(path) \/ path[e + 1] # "#"

\* The integer k written in decimal, zero-padded to the width n of the
\* placeholder; the sign of a negative k counts towards the width.
Padded(k, n) ==
    LET digits == DecimalStr(IF k < 0 THEN -k ELSE k)
        sign == IF k < 0 THEN <<"-">> ELSE <<>>
        zeros == [j \in 1..(n - Len(sign) - Len(digits)) |-> "0"]
    IN sign \o zeros \o digits

\* The path with every maximal run of '#' replaced by the padded integer k.
RECURSIVE Substituted(_, _)
Substituted(path, k) ==
    IF FirstHash(path) = 0 THEN path
    ELSE LET b == FirstHash(path)
             e == RunEnd(path, b)
         IN SubSeq(path, 1, b - 1) \o Padded(k, e - b + 1)
               \o Substituted(SubSeq(path, e + 1, Len(path)), k)

\* The integer part of the frame snap() was asked for.
IntegerPart(v) ==
    IF v.t = "num" THEN v.n
    ELSE CHOOSE k \in -(v.n * v.n + 1)..(v.n * v.n + 1) :
            \/ v.n >= 0 /\ k * v.d <= v.n /\ v.n < (k + 1) * v.d
            \/ v.n < 0 /\ k * v.d >= v.n /\ v.n > (k - 1) * v.d

\* C12: for every scalar frame f and every path of the render primitive,
\* the filename snap() returns has no '#', and every maximal run of n '#' of
\* the path is replaced by the decimal integer part of f left-padded with
\* zeros to a width of at least n (a minus sign counts towards the width);
\* every other character is unchanged.
C12_PaddingSubstituted ==
    (Done /\ args.entry = "snap" /\ result.kind = "return") =>
        /\ \A k \in 1..Len(result.value) : result.value[k] # "#"
        /\ result.value = Substituted(args.filename, IntegerPart(SnapFrame))

\* snap(frame=12) on a path with a run of one and a run of two '#'.
C12_Witness ==
    /\ Done
    /\ args.entry = "snap"
    /\ args.kw.frame = Num(12)
    /\ args.filename = <<"#", "a", "#", "#">>
    /\ result = [kind |-> "return", value |-> <<"1", "2", "a", "1", "2">>]

\* round(): the integer nearest to the positive fraction n/d, halves upwards.
Rounded(n, d) == (2 * n + d) \div (2 * d)

\* A number whose value is the integer k.
IsInteger(v, k) == v \in {Num(k), Float(k, 1)}

\* C13: with maintain_aspect_ratio=True, a width w and no height, the height
\* passed to the render primitive, and used with the margin to size the
\* window, is the integer round(w / deviceAspectRatio); the width is passed
\* through unchanged.
C13_AspectHeightRounded ==
    (/\ pb # NoneV
     /\ args.maintain_aspect_ratio
     /\ args.width \in {Num(8), Num(9)}
     /\ args.height = NoneV) =>
        LET h == Rounded(args.width.n * resolution.ratio.d, resolution.ratio.n)
        IN /\ pb.widthHeight[1] = args.width
           /\ IsInteger(pb.widthHeight[2], h)
           /\ windowSize.width = Num(args.width.n + padding)
           /\ IsInteger(windowSize.height, h + padding)

\* Both callers are through.
BothDone == \A c \in Callers : calls[c].pc = "done"

\* Caller x released its scopes before caller y entered any.
Serialized(x, y) ==
    BothDone /\ Position("exit:" \o x) < Position("enter:" \o y)

\* x acquires, y acquires, x releases, y releases.
Overlapped(x, y) ==
    /\ BothDone
    /\ Position("enter:" \o x) < Position("enter:" \o y)
    /\ Position("enter:" \o y) < Position("exit:" \o x)
    /\ Position("exit:" \o x) < Position("exit:" \o y)

\* C14: capture() takes no lock.  Two calls one after the other always end
\* with the camera attributes, the display preferences and the current time
\* as they were before both; two calls whose scopes overlap without nesting
\* (x acquires, y acquires, x releases, y releases) end with what x applied
\* and with the time y found, which can differ from the values before both.
C14_OverlapCorrupts ==
    \A x, y \in Callers :
        /\ Serialized(x, y) =>
              /\ CameraAttrsRestored
              /\ DisplayRestored
              /\ TimeRestored
        /\ Overlapped(x, y) =>
              /\ camAttr[ResolveCamera(args.camera)] = calls[x].camera_options
              /\ rgb = [k \in ColorSet |-> calls[x].display_options[k]]
              /\ gradient = calls[x].display_options.displayGradient
              /\ time = calls[y].current_time

\* Two overlapping calls have ended with a camera attribute, a display
\* preference and the current time all different from before.
C14_Witness ==
    /\ Overlapped("A", "B")
    /\ camAttr # pre.camAttr
    /\ rgb # pre.rgb
    /\ gradient # pre.gradient
    /\ time # pre.time

\* The milestones of a capture, in the order the claim gives them.
Milestones ==
    <<"currentTime", "window", "refresh", "setFocus", "enter:camera",
      "enter:viewport", "enter:camopts", "enter:display", "enter:isolate",
      "enter:time", "playblast">>

\* How many times e was logged before position p.
CountBefore(e, p) == Cardinality({k \in 1..(p - 1) : trace[k] = e})

\* C15: in every capture() that reaches the render primitive, the current
\* time is reset exactly once, before the window and every scope; then the
\* viewport is created and focused; then the scopes are entered in the
\* order camera visibility, viewport options, camera options, display
\* options, isolation, time; the render primitive is invoked at most once,
\* and only while the window, the panel and all six scopes are held.
C15_EventOrder ==
    /\ CountBefore("playblast", Len(trace) + 1) <= 1
    /\ pc = "playblast" =>
          /\ window /\ panel
          /\ exits = <<"camera", "viewport", "camopts", "display", "isolate",
                       "time">>
    /\ InTrace("playblast") =>
          LET p == Position("playblast")
          IN /\ trace[1] = "currentTime"
             /\ CountBefore("currentTime", p) = 1
             /\ \A k \in 1..Len(Milestones) :
                   CountBefore(Milestones[k], p + 1) = 1
             /\ \A k \in 1..(Len(Milestones) - 1) :
                   Position(Milestones[k]) < Position(Milestones[k + 1])
             /\ \A k \in 1..(p - 1) :
                   /\ ~IsExitMark(trace[k])
                   /\ trace[k] \notin {"deleteUI.panel", "deleteUI.window"}

\* A headless capture just after its render, all six scopes still held.
C15_Witness ==
    /\ pc = "unwind"
    /\ trace[Len(trace)] = "playblast"
    /\ standalone
    /\ exits = <<"camera", "viewport", "camopts", "display", "isolate", "time">>
    /\ window /\ panel

\* C16: when a host set call raises while the camera-options or the
\* display-options applier is applying its bundle on entry, the values it
\* had already written are restored before the error reaches the caller.
C16_PartialApplyRestored ==
    (Done /\ (raised = <<"setAttr">> \/ raised = <<"displayRGBColor">>)) =>
        /\ CameraAttrsRestored
        /\ DisplayRestored

\* C17: in a headless capture, whatever the renderable flags were before the
\* call, the requested camera is the only camera whose renderable flag is
\* true while the render primitive runs.
C17_OnlyRequestedRenderable ==
    (standalone /\ pc = "playblast") =>
        \A c \in Cameras : rnd[c] <=> (c = camera)

\* C18: every window made by _independent_panel is destroyed before
\* capture() returns or raises (unless the call that deletes the window is
\* itself the one that raises), also when a creation step after the window
\* raises before the body is reached: no capture window outlives the call.
C18_NoWindowOutlivesCall ==
    (Done /\ ~HasRaised("deleteUI.window")) => ~window

\* C19: when the release of a scope raises (the time restore, say), whether
\* or not the render had raised, every scope that was entered is still
\* released, the panel and the window are still destroyed, and an error
\* reaches the caller; the camera attributes, the display preferences, the
\* renderable flags and the time are restored, each unless it is its own
\* scope's release that raised.
C19_ReleaseFailureIsolated ==
    (/\ Done
     /\ \E k \in 1..Len(raised) : raised[k] \in ReleaseFaults
     /\ \A k \in 1..Len(raised) : raised[k] \in ReleaseFaults \cup {"playblast"}) =>
        /\ Len(Exited) = Len(Entered)
        /\ ~HasRaised("exit:setAttr") => CameraAttrsRestored
        /\ ~HasRaised("exit:displayRGBColor") => DisplayRestored
        /\ ~HasRaised("exit:setAttr.rnd") => RenderableRestored
        /\ ~HasRaised("exit:currentTime") => TimeRestored
        /\ InTrace("deleteUI.panel") /\ InTrace("deleteUI.window")
        /\ ~window /\ ~panel
        /\ result.kind = "raise"

\* A headless capture whose time restore raised after the render had moved
\* the time, every other touched value having been changed and restored.
C19_Witness ==
    /\ Done
    /\ raised = <<"exit:currentTime">>
    /\ result = [kind |-> "raise", exc |-> "currentTime"]
    /\ standalone
    /\ time # pre.time
    /\ ~pre.rnd[camera]
    /\ pre.camAttr[camera] # options
    /\ pre.rgb # [c \in ColorSet |-> DisplayBundle[c]]
    /\ CameraAttrsRestored /\ DisplayRestored /\ RenderableRestored
    /\ ~window /\ ~panel

====
